---- MODULE Spec2Model ----
(***************************************************************************)
(* A model of pulp_ansible/app/tasks/utils.py: get_page_url,               *)
(* parse_collections_requirements_file and parse_collection_filename.      *)
(*                                                                         *)
(* Text that the code inspects character by character (filenames, YAML     *)
(* scalars) is a sequence of one-character strings.  Query-string names    *)
(* and values are TLA+ strings: they are drawn from unreserved characters, *)
(* on which the percent-decoding of parse_qs and the percent-encoding of   *)
(* urlencode leave the text unchanged.                                     *)
(***************************************************************************)
EXTENDS Integers, Sequences, FiniteSets, TLC

VARIABLES
    fn,                       \* the function being executed, or "idle"
    pc,                       \* the source line the execution stands at
    executed,                 \* the source lines executed so far by this call
    url, page,                \* get_page_url: arguments
    requirements_file_string, \* parse_collections_requirements_file: argument
    requirements,             \* ... the document yaml.safe_load returned
    items, idx,               \* ... the for loop's iterator: what it yields, position
    collection_info,          \* ... the accumulated list
    filename,                 \* parse_collection_filename: argument
    formatted_from,           \* ... the triple the caller formatted it from, if any
    match,                    \* ... the match object of FILENAME_RE (or NoMatch)
    ret                       \* how the call ended: a return value or an exception

vars == <<fn, pc, executed, url, page, requirements_file_string, requirements,
          items, idx, collection_info, filename, formatted_from, match, ret>>

(***************************************************************************)
(* Bounds of the model.                                                    *)
(***************************************************************************)
MaxQuery == 3      \* '&'-separated segments in a URL's query string
MaxPage == 2       \* page numbers 1..MaxPage
MaxEntries == 3    \* elements of the manifest's `collections` sequence
MaxIdents == 2     \* dot-separated identifiers in a pre-release / build part

(***************************************************************************)
(* How a call ends.                                                        *)
(***************************************************************************)
Pending == [kind |-> "pending"]
Return(v) == [kind |-> "return", value |-> v]
Raise(exc, msg) == [kind |-> "raise", exc |-> exc, msg |-> msg]

Unbound == [t |-> "unbound"]

(***************************************************************************)
(* get_page_url                                                            *)
(*                                                                         *)
(* A query string is the sequence of its '&'-separated segments.  A segment *)
(* "a=1" is [name "a", eq TRUE, value "1"], "a=" is [name "a", eq TRUE,    *)
(* value ""], "a" is [name "a", eq FALSE, value ""], and the empty         *)
(* segment (as in "a=1&&b=2") is [name "", eq FALSE, value ""].            *)
(***************************************************************************)
Seg(n, e, v) == [name |-> n, eq |-> e, value |-> v]

QueryNames == {"a", "b", "page"}
QueryValues == {"", "1", "2"}

Segments ==
    {Seg(n, TRUE, v) : n \in QueryNames, v \in QueryValues}
        \cup {Seg(n, FALSE, "") : n \in QueryNames \cup {""}}

Queries == UNION {[1..n -> Segments] : n \in 0..MaxQuery}

\* A URL string: the text before the query, whether a '?' follows it, the
\* query's segments, and the fragment (the text after '#').
Urls ==
    {[base |-> "http://x/", qmark |-> q, query |-> qs, fragment |-> f] :
        q \in BOOLEAN, qs \in Queries, f \in {"", "top"}}

\* page numbers: 1..MaxPage and one of two digits
Pages == (1..MaxPage) \cup {12}

IsUrl(u) == ~u.qmark => u.query = <<>>

\* urllib.parse.urlparse: the six components; an empty query is the same
\* whether or not its '?' was written.
urlparse(u) ==
    [scheme |-> "http", netloc |-> "x", path |-> "/", params |-> "",
     query |-> u.query, fragment |-> u.fragment]

\* str(page) for a non-negative int
Digit(d) ==
    CASE d = 0 -> "0" [] d = 1 -> "1" [] d = 2 -> "2" [] d = 3 -> "3"
      [] d = 4 -> "4" [] d = 5 -> "5" [] d = 6 -> "6" [] d = 7 -> "7"
      [] d = 8 -> "8" [] d = 9 -> "9"

RECURSIVE str(_)
str(n) == IF n < 10 THEN Digit(n) ELSE str(n \div 10) \o Digit(n % 10)

\* parse_qsl as it would be with keep_blank_values=True
RECURSIVE parse_qsl_keep_blank(_)
parse_qsl_keep_blank(qs) ==
    IF qs = <<>> THEN <<>>
    ELSE LET nv == Head(qs)
             rest == parse_qsl_keep_blank(Tail(qs))
         IN  IF nv.name # "" \/ nv.eq
             THEN <<<<nv.name, nv.value>>>> \o rest
             ELSE rest

\* urllib.parse.parse_qsl(qs, keep_blank_values=False, strict_parsing=False):
\* empty segments, segments without '=' and segments with an empty value
\* are skipped.
RECURSIVE parse_qsl(_)
parse_qsl(qs) ==
    IF qs = <<>> THEN <<>>
    ELSE LET nv == Head(qs)
             rest == parse_qsl(Tail(qs))
         IN  IF nv.eq /\ nv.value # ""
             THEN <<<<nv.name, nv.value>>>> \o rest
             ELSE rest

\* A dict is the sequence of its items in insertion order, keys unique.
DictHas(d, k) == \E i \in 1..Len(d) : d[i][1] = k
DictIndex(d, k) == CHOOSE i \in 1..Len(d) : d[i][1] = k
DictGet(d, k, default) == IF DictHas(d, k) THEN d[DictIndex(d, k)][2] ELSE default
DictSet(d, k, v) ==
    IF DictHas(d, k)
    THEN [d EXCEPT ![DictIndex(d, k)] = <<k, v>>]
    ELSE Append(d, <<k, v>>)

PyList(l) == [t |-> "list", l |-> l]
PyInt(i) == [t |-> "int", i |-> i]

\* urllib.parse.parse_qs: name -> list of values, a repeated name appends.
RECURSIVE parse_qs_fold(_, _)
parse_qs_fold(pairs, parsed_result) ==
    IF pairs = <<>> THEN parsed_result
    ELSE LET name == Head(pairs)[1]
             value == Head(pairs)[2]
         IN  parse_qs_fold(
                 Tail(pairs),
                 IF DictHas(parsed_result, name)
                 THEN DictSet(parsed_result, name,
                              PyList(Append(DictGet(parsed_result, name, PyList(<<>>)).l, value)))
                 ELSE DictSet(parsed_result, name, PyList(<<value>>)))

parse_qs(qs) == parse_qs_fold(parse_qsl(qs), <<>>)

\* urllib.parse.urlencode(query, doseq=True) over a dict: a value with no len()
\* gives one pair with str(v), a list gives one pair per element.
RECURSIVE EncodeList(_, _)
EncodeList(k, l) ==
    IF l = <<>> THEN <<>> ELSE <<Seg(k, TRUE, Head(l))>> \o EncodeList(k, Tail(l))

RECURSIVE urlencode(_)
urlencode(query) ==
    IF query = <<>> THEN <<>>
    ELSE LET k == Head(query)[1]
             v == Head(query)[2]
         IN  (IF v.t = "int" THEN <<Seg(k, TRUE, str(v.i))>> ELSE EncodeList(k, v.l))
                 \o urlencode(Tail(query))

\* urllib.parse.urlunparse: '?' is written only before a non-empty query.
urlunparse(parsed) ==
    [base |-> parsed.scheme \o "://" \o parsed.netloc \o parsed.path,
     qmark |-> parsed.query # <<>>, query |-> parsed.query,
     fragment |-> parsed.fragment]

\* get_page_url as it would be if it appended to the `page` list
get_page_url_appends(u, p) ==
    LET parsed_url == urlparse(u)
        query == parse_qs(parsed_url.query)
        new_query ==
            DictSet(query, "page",
                    PyList(Append(DictGet(query, "page", PyList(<<>>)).l, str(p))))
    IN  urlunparse([parsed_url EXCEPT !.query = urlencode(new_query)])

get_page_url(u, p) ==
    LET parsed_url == urlparse(u)
        new_query == DictSet(parse_qs(parsed_url.query), "page", PyInt(p))
    IN  urlunparse([parsed_url EXCEPT !.query = urlencode(new_query)])

(***************************************************************************)
(* parse_collections_requirements_file                                     *)
(*                                                                         *)
(* A Python value as yaml.safe_load builds it: a str (its characters), None,*)
(* an int, a list (its elements) or a dict (its items in insertion order). *)
(* The manifest text is held by what matters to the code: whether it is    *)
(* None, empty or non-empty, and what yaml.safe_load makes of it.          *)
(***************************************************************************)
PyStr(s) == [t |-> "str", s |-> s]
PyNone == [t |-> "None"]
PyDict(d) == [t |-> "dict", d |-> d]

isinstance_dict(v) == v.t = "dict"

collections_key == PyStr(<<"c", "o", "l", "l", "e", "c", "t", "i", "o", "n", "s">>)
roles_key == PyStr(<<"r", "o", "l", "e", "s">>)
name_key == PyStr(<<"n", "a", "m", "e">>)
version_key == PyStr(<<"v", "e", "r", "s", "i", "o", "n">>)
source_key == PyStr(<<"s", "o", "u", "r", "c", "e">>)
Star == PyStr(<<"*">>)

FooBar == PyStr(<<"f", "o", "o", ".", "b", "a", "r">>)
FooBaz == PyStr(<<"f", "o", "o", ".", "b", "a", "z">>)
V100 == PyStr(<<"1", ".", "0", ".", "0">>)
Galaxy == PyStr(<<"h", "t", "t", "p", ":", "/", "/", "g">>)

\* An optional item of a mapping: absent, or the key with one of the values.
OptItem(k, values) == {<<>>} \cup {<<<<k, v>>>> : v \in values}

BareEntries == {FooBar, FooBaz, PyNone, PyInt(1), PyList(<<FooBar>>)}

MappingEntries ==
    {PyDict(n \o v \o s) :
        n \in OptItem(name_key, {FooBar}),
        v \in OptItem(version_key, {V100}),
        s \in OptItem(source_key, {Galaxy})}
    \* null under a key
        \cup {PyDict(<<<<name_key, PyNone>>>>),
              PyDict(<<<<name_key, FooBar>>, <<version_key, PyNone>>>>)}

Entries == BareEntries \cup MappingEntries

EntryLists(max) == UNION {[1..n -> Entries] : n \in 0..max}

\* What `collections` holds when it is not a sequence.
NonSequences == {PyNone, PyInt(1), PyStr(<<"a", "b">>), PyDict(<<<<FooBar, V100>>>>)}

Documents ==
    \* the expected shape
    {PyDict(<<<<collections_key, PyList(l)>>>>) : l \in EntryLists(MaxEntries)}
    \* other keys beside `collections`
        \cup {PyDict(<<<<roles_key, PyList(<<>>)>>, <<collections_key, PyList(l)>>>>) :
                 l \in EntryLists(1)}
    \* `collections` is not a sequence
        \cup {PyDict(<<<<collections_key, v>>>>) : v \in NonSequences}
    \* a mapping without `collections`
        \cup {PyDict(<<>>)}
        \cup {PyDict(<<<<roles_key, PyList(l)>>>>) : l \in EntryLists(1)}
    \* not a mapping
        \cup {PyNone, FooBar, PyInt(1)}
        \cup {PyList(l) : l \in EntryLists(1)}

YAMLError == [t |-> "YAMLError"]

\* The argument: None, "" or a non-empty text with the outcome of
\* yaml.safe_load on it (a document, or YAMLError raised).
ManifestTexts ==
    {[text |-> "None"], [text |-> "empty"]}
        \cup {[text |-> "nonempty", yaml |-> y] : y \in Documents \cup {YAMLError}}

ValidationError(msg) == Raise("ValidationError", msg)

\* the test of line 59 as it would be if written `is not None`
Truthy_is_not_none(s) == s.text # "None"

\* Python truthiness of the argument: None and "" are false.
Truthy(s) == s.text = "nonempty"

\* yaml.safe_load: an empty stream holds no document, which loads as None.
safe_load(s) == IF s.text = "nonempty" THEN s.yaml ELSE PyNone

\* the test of line 72 as it would be without its second half
has_collections_dict_only(reqs) == isinstance_dict(reqs)

\* line 72: isinstance(requirements, dict) and "collections" in requirements
has_collections(reqs) == isinstance_dict(reqs) /\ DictHas(reqs.d, collections_key)

\* the loop body as it would be if a missing version defaulted to None
collection_entry_version_none(collection_req) ==
    IF isinstance_dict(collection_req)
    THEN LET req_name == DictGet(collection_req.d, name_key, PyNone)
             req_version == DictGet(collection_req.d, version_key, PyNone)
             req_source == DictGet(collection_req.d, source_key, PyNone)
         IN  IF req_name = PyNone
             THEN ValidationError("Collections requirement entry should contain the key name.")
             ELSE Return(<<req_name, req_version, req_source>>)
    ELSE Return(<<collection_req, PyNone, PyNone>>)

\* the loop body as it would be without the check of lines 83-86
collection_entry_unchecked(collection_req) ==
    IF isinstance_dict(collection_req)
    THEN Return(<<DictGet(collection_req.d, name_key, PyNone),
                  DictGet(collection_req.d, version_key, Star),
                  DictGet(collection_req.d, source_key, PyNone)>>)
    ELSE Return(<<collection_req, Star, PyNone>>)

\* lines 81-93, the body of the loop for one element: the triple appended,
\* or the ValidationError raised.
collection_entry(collection_req) ==
    IF isinstance_dict(collection_req)
    THEN LET req_name == DictGet(collection_req.d, name_key, PyNone)
             req_version == DictGet(collection_req.d, version_key, Star)
             req_source == DictGet(collection_req.d, source_key, PyNone)
         IN  IF req_name = PyNone
             THEN ValidationError("Collections requirement entry should contain the key name.")
             ELSE Return(<<req_name, req_version, req_source>>)
    ELSE Return(<<collection_req, Star, PyNone>>)

\* iter(v) as the for statement calls it: a list yields its elements, a str
\* its characters, a dict its keys; None and int are not iterable.
Iterable(v) == v.t \in {"list", "str", "dict"}
Iter(v) ==
    CASE v.t = "list" -> v.l
      [] v.t = "str" -> [i \in 1..Len(v.s) |-> PyStr(<<v.s[i]>>)]
      [] v.t = "dict" -> [i \in 1..Len(v.d) |-> v.d[i][1]]

(***************************************************************************)
(* parse_collection_filename                                               *)
(*                                                                         *)
(* A filename is a sequence of one-character strings.                      *)
(***************************************************************************)
Letters == {"a", "b", "c", "g", "m", "n", "o", "r", "s", "t", "v", "x", "y", "z", "A", "Z"}
Digits == {"0", "1", "2", "3", "4", "5", "6", "7", "8", "9"}

\* \w
WordChars == Letters \cup Digits \cup {"_"}
\* [0-9a-zA-Z.+-]
VersionChars == Digits \cup Letters \cup {".", "+", "-"}
\* [0-9a-zA-Z.-]
IdentChars == Digits \cup Letters \cup {".", "-"}

AllIn(s, chars) == \A i \in 1..Len(s) : s[i] \in chars

TarGz == <<".", "t", "a", "r", ".", "g", "z">>

NoMatch == [t |-> "None"]
MatchObject(g) == [t |-> "match", groups |-> g]

\* Python's `$` (no re.MULTILINE): the end of the string, or just before a
\* newline that ends the string.
AtDollar(s, e) == e = Len(s) \/ (e = Len(s) - 1 /\ s[Len(s)] = "\n")

\* FILENAME_RE.match(filename):
\*   ^(?P<namespace>\w+)-(?P<name>\w+)-(?P<version>[0-9a-zA-Z.+-]+)\.tar\.gz$
\* i and j are the positions of the two literal hyphens, e the last
\* character of the version group.
FILENAME_RE_matches(f) ==
    LET n == Len(f)
        hyphens == {i \in 1..n : f[i] = "-"}
    IN  {<<i, j, e>> \in hyphens \X hyphens \X (1..n) :
            /\ 1 < i /\ i + 1 < j /\ j < e
            /\ AllIn(SubSeq(f, 1, i - 1), WordChars)
            /\ AllIn(SubSeq(f, i + 1, j - 1), WordChars)
            /\ AllIn(SubSeq(f, j + 1, e), VersionChars)
            /\ e + Len(TarGz) <= n
            /\ SubSeq(f, e + 1, e + Len(TarGz)) = TarGz
            /\ AtDollar(f, e + Len(TarGz))}

\* the match as it would be if namespace and name were written .+ (greedy:
\* each runs to the last hyphen that leaves a match)
FILENAME_RE_match_any_chars(f) ==
    LET n == Len(f)
        hyphens == {i \in 1..n : f[i] = "-"}
        ms == {<<i, j, e>> \in hyphens \X hyphens \X (1..n) :
                  /\ 1 < i /\ i + 1 < j /\ j < e
                  /\ AllIn(SubSeq(f, 1, j - 1), WordChars \cup VersionChars)
                  /\ AllIn(SubSeq(f, j + 1, e), VersionChars)
                  /\ e + Len(TarGz) <= n
                  /\ SubSeq(f, e + 1, e + Len(TarGz)) = TarGz
                  /\ AtDollar(f, e + Len(TarGz))}
    IN  IF ms = {} THEN NoMatch
        ELSE LET m == CHOOSE m \in ms :
                          \A o \in ms : o[1] < m[1] \/ (o[1] = m[1] /\ o[2] <= m[2])
             IN  MatchObject(<<SubSeq(f, 1, m[1] - 1),
                               SubSeq(f, m[1] + 1, m[2] - 1),
                               SubSeq(f, m[2] + 1, m[3])>>)

FILENAME_RE_match(f) ==
    LET ms == FILENAME_RE_matches(f)
    IN  IF ms = {} THEN NoMatch
        ELSE LET m == CHOOSE m \in ms : TRUE
             IN  MatchObject(<<SubSeq(f, 1, m[1] - 1),
                               SubSeq(f, m[1] + 1, m[2] - 1),
                               SubSeq(f, m[2] + 1, m[3])>>)

\* str.split(sep) on a single-character separator
RECURSIVE Split(_, _)
Split(s, sep) ==
    IF \A i \in 1..Len(s) : s[i] # sep THEN <<s>>
    ELSE LET k == CHOOSE i \in 1..Len(s) : s[i] = sep /\ \A h \in 1..(i - 1) : s[h] # sep
         IN  <<SubSeq(s, 1, k - 1)>> \o Split(SubSeq(s, k + 1, Len(s)), sep)

isdigit(s) == s # <<>> /\ AllIn(s, Digits)

\* semantic_version.base._has_leading_zero
has_leading_zero(value) ==
    value # <<>> /\ value[1] = "0" /\ isdigit(value) /\ value # <<"0">>

\* semantic_version.Version._validate_identifiers: the first offending
\* identifier decides; "" when all are valid.
validate_identifiers(identifiers, allow_leading_zeroes) ==
    IF \E i \in 1..Len(identifiers) : identifiers[i] = <<>>
    THEN "Invalid empty identifier"
    ELSE IF ~allow_leading_zeroes
            /\ \E i \in 1..Len(identifiers) : has_leading_zero(identifiers[i])
         THEN "Invalid leading zero in identifier"
         ELSE ""

\* Version.version_re.match(version_string):
\*   ^(\d+)\.(\d+)\.(\d+)(?:-([0-9a-zA-Z.-]+))?(?:\+([0-9a-zA-Z.-]+))?$
\* The groups <<major, minor, patch, prerelease, build>>; an optional group
\* that did not take part is NoMatch.  (The text comes from the version
\* group of FILENAME_RE and so holds no newline: `$` is the end of the text.)
version_re_matches(v) ==
    LET n == Len(v)
        dots == {i \in 1..n : v[i] = "."}
        pluses == {i \in 1..n : v[i] = "+"}
    IN  {g \in dots \X dots \X (1..n) \X (pluses \cup {n + 1}) :
            \* g[1], g[2]: the two dots; g[3]: the last digit of patch;
            \* g[4]: where the build part's '+' stands (n + 1: no build part)
            /\ 1 < g[1] /\ g[1] + 1 < g[2] /\ g[2] < g[3] /\ g[3] < g[4]
            /\ AllIn(SubSeq(v, 1, g[1] - 1), Digits)
            /\ AllIn(SubSeq(v, g[1] + 1, g[2] - 1), Digits)
            /\ AllIn(SubSeq(v, g[2] + 1, g[3]), Digits)
            /\ \/ g[3] + 1 = g[4]
               \/ /\ v[g[3] + 1] = "-"
                  /\ g[3] + 2 < g[4]
                  /\ AllIn(SubSeq(v, g[3] + 2, g[4] - 1), IdentChars)
            /\ \/ g[4] = n + 1
               \/ /\ g[4] < n
                  /\ AllIn(SubSeq(v, g[4] + 1, n), IdentChars)}

version_re_match(v) ==
    LET ms == version_re_matches(v)
    IN  IF ms = {} THEN NoMatch
        ELSE LET g == CHOOSE g \in ms : TRUE
             IN  MatchObject(<<SubSeq(v, 1, g[1] - 1),
                               SubSeq(v, g[1] + 1, g[2] - 1),
                               SubSeq(v, g[2] + 1, g[3]),
                               IF g[3] + 1 = g[4] THEN NoMatch
                               ELSE PyStr(SubSeq(v, g[3] + 2, g[4] - 1)),
                               IF g[4] = Len(v) + 1 THEN NoMatch
                               ELSE PyStr(SubSeq(v, g[4] + 1, Len(v)))>>)

\* semantic_version.Version.parse(version_string): "" when the version is
\* accepted, else the message of the ValueError raised.
Version_parse(version_string) ==
    IF version_string = <<>> THEN "Invalid empty version string"
    ELSE LET m == version_re_match(version_string)
         IN  IF m = NoMatch THEN "Invalid version string"
             ELSE LET major == m.groups[1]
                      minor == m.groups[2]
                      patch == m.groups[3]
                      prerelease == m.groups[4]
                      build == m.groups[5]
                      pre_error ==
                          IF prerelease = NoMatch THEN ""
                          ELSE validate_identifiers(Split(prerelease.s, "."), FALSE)
                      build_error ==
                          IF build = NoMatch THEN ""
                          ELSE validate_identifiers(Split(build.s, "."), TRUE)
                  IN  IF has_leading_zero(major) THEN "Invalid leading zero in major"
                      ELSE IF has_leading_zero(minor) THEN "Invalid leading zero in minor"
                      ELSE IF has_leading_zero(patch) THEN "Invalid leading zero in patch"
                      ELSE IF pre_error # "" THEN pre_error
                      ELSE build_error

CollectionFilename(namespace, name, version) ==
    [namespace |-> namespace, name |-> name, version |-> version]

\* Inputs.  Well-formed namespaces and names, and malformed ones (empty, with
\* a space, with a hyphen).
Words == {<<"n", "s">>, <<"m", "y", "_", "n", "1">>}
BadWords == {<<>>, <<"b", " ", "n">>, <<"n", "-", "s">>}

\* major.minor.patch candidates, well-formed and not
Cores ==
    {<<"1", ".", "2", ".", "3">>, <<"1", "0", ".", "0", ".", "3", "0">>,
     <<"0", "1", ".", "2", ".", "3">>, <<"1", ".", "0", "2", ".", "3">>,
     <<"1", ".", "2">>, <<"1", ".", "x", ".", "3">>}
PreIdents == {<<"0">>, <<"0", "1">>, <<"a", "-", "b">>, <<>>}
BuildIdents == {<<"b", "-", "1">>, <<"0", "1">>, <<>>}

RECURSIVE Join(_, _)
Join(parts, sep) ==
    IF Len(parts) = 0 THEN <<>>
    ELSE IF Len(parts) = 1 THEN parts[1]
    ELSE parts[1] \o <<sep>> \o Join(Tail(parts), sep)

\* "" or the delimiter followed by one to MaxIdents dot-separated identifiers
Suffixes(delimiter, idents) ==
    {<<>>} \cup {<<delimiter>> \o Join(ids, ".") :
                    ids \in UNION {[1..k -> idents] : k \in 1..MaxIdents}}

VersionStrings ==
    {c \o p \o b : c \in Cores, p \in Suffixes("-", PreIdents), b \in Suffixes("+", BuildIdents)}

Format(ns, name, version) == ns \o <<"-">> \o name \o <<"-">> \o version \o TarGz

Extensions == {<<".", "t", "a", "r", ".", "g", "z">>, <<".", "t", "a", "r", ".", "g", "z", "\n">>, <<".", "t", "a", "r", ".", "g", "z", "\n", "\n">>, <<".", "t", "a", "r">>, <<>>, <<"x", "t", "a", "r", "x", "g", "z">>, <<".", "t", "a", "r", ".", "g", "z", "x">>}

OtherFilenames ==
    {ns \o <<"-">> \o name \o <<"-">> \o v \o x :
        ns \in Words \cup BadWords, name \in Words \cup BadWords,
        v \in {<<"1", ".", "2", ".", "3">>, <<"1", ".", "0">>, <<"n", "o", "t", ".", "a", ".", "v", "e", "r", "s", "i", "o", "n">>, <<"1", ".", "0", ".", "0", "-", "r", "c", ".", "1", "+", "b", "-", "1">>, <<>>, <<"1", ".", "0", " ", ".", "0">>},
        x \in Extensions}

Init ==
    /\ fn = "idle"
    /\ pc = "idle"
    /\ executed = {}
    /\ url = Unbound
    /\ page = 0
    /\ requirements_file_string = Unbound
    /\ requirements = Unbound
    /\ items = <<>>
    /\ idx = 0
    /\ collection_info = <<>>
    /\ filename = <<>>
    /\ formatted_from = Unbound
    /\ match = Unbound
    /\ ret = Pending

Call_get_page_url ==
    /\ fn = "idle"
    /\ \E u \in Urls, p \in Pages :
          /\ IsUrl(u)
          /\ url' = u
          /\ page' = p
          /\ ret' = Return(get_page_url(u, p))
    /\ fn' = "get_page_url"
    /\ pc' = "done"
    /\ executed' = {"L22", "L23", "L24", "L25"}
    /\ UNCHANGED <<requirements_file_string, requirements, items, idx,
                   collection_info, filename, formatted_from, match>>

\* line 57 and the call itself
Call_parse_collections_requirements_file ==
    /\ fn = "idle"
    /\ \E s \in ManifestTexts : requirements_file_string' = s
    /\ fn' = "parse_collections_requirements_file"
    /\ collection_info' = <<>>
    /\ pc' = "L59"
    /\ executed' = {"L57"}
    /\ UNCHANGED <<url, page, requirements, items, idx, filename, formatted_from, match, ret>>

\* line 59: if requirements_file_string
L59 ==
    /\ fn = "parse_collections_requirements_file"
    /\ pc = "L59"
    /\ pc' = IF Truthy(requirements_file_string) THEN "L61" ELSE "L95"
    /\ executed' = executed \cup {"L59"}
    /\ UNCHANGED <<fn, url, page, requirements_file_string, requirements, items,
                   idx, collection_info, filename, formatted_from, match, ret>>

\* lines 60-70: yaml.safe_load, YAMLError turned into ValidationError
L61 ==
    /\ fn = "parse_collections_requirements_file"
    /\ pc = "L61"
    /\ executed' = executed \cup {"L61"}
    /\ LET loaded == safe_load(requirements_file_string)
       IN  IF loaded = YAMLError
           THEN /\ ret' = ValidationError("Failed to parse the collection requirements yml")
                /\ pc' = "done"
                /\ UNCHANGED requirements
           ELSE /\ requirements' = loaded
                /\ pc' = "L72"
                /\ UNCHANGED ret
    /\ UNCHANGED <<fn, url, page, requirements_file_string, items, idx,
                   collection_info, filename, formatted_from, match>>

\* lines 72-78: the top-level shape
L72 ==
    /\ fn = "parse_collections_requirements_file"
    /\ pc = "L72"
    /\ executed' = executed \cup {"L72"}
    /\ IF ~has_collections(requirements)
       THEN /\ ret' = ValidationError("Expecting collections requirements file to be a dict with the key collections")
            /\ pc' = "done"
       ELSE /\ pc' = "L80"
            /\ UNCHANGED ret
    /\ UNCHANGED <<fn, url, page, requirements_file_string, requirements, items,
                   idx, collection_info, filename, formatted_from, match>>

\* line 80, entering the loop: iter(requirements["collections"])
L80 ==
    /\ fn = "parse_collections_requirements_file"
    /\ pc = "L80"
    /\ executed' = executed \cup {"L80"}
    /\ LET collections == DictGet(requirements.d, collections_key, PyNone)
       IN  IF Iterable(collections)
           THEN /\ items' = Iter(collections)
                /\ idx' = 1
                /\ pc' = "L81"
                /\ UNCHANGED ret
           ELSE /\ ret' = Raise("TypeError", "object is not iterable")
                /\ pc' = "done"
                /\ UNCHANGED <<items, idx>>
    /\ UNCHANGED <<fn, url, page, requirements_file_string, requirements,
                   collection_info, filename, formatted_from, match>>

\* lines 80-93, one turn of the loop: the next element, or the loop's end
L81 ==
    /\ fn = "parse_collections_requirements_file"
    /\ pc = "L81"
    /\ IF idx > Len(items)
       THEN /\ pc' = "L95"
            /\ UNCHANGED <<executed, idx, collection_info, ret>>
       ELSE LET entry == collection_entry(items[idx])
            IN  /\ executed' = executed \cup {"L81"}
                /\ IF entry.kind = "raise"
                   THEN /\ ret' = entry
                        /\ pc' = "done"
                        /\ UNCHANGED <<idx, collection_info>>
                   ELSE /\ collection_info' = Append(collection_info, entry.value)
                        /\ idx' = idx + 1
                        /\ UNCHANGED <<pc, ret>>
    /\ UNCHANGED <<fn, url, page, requirements_file_string, requirements, items,
                   filename, formatted_from, match>>

\* line 95: return collection_info
L95 ==
    /\ fn = "parse_collections_requirements_file"
    /\ pc = "L95"
    /\ ret' = Return(collection_info)
    /\ pc' = "done"
    /\ executed' = executed \cup {"L95"}
    /\ UNCHANGED <<fn, url, page, requirements_file_string, requirements, items,
                   idx, collection_info, filename, formatted_from, match>>

Call_parse_collection_filename ==
    /\ fn = "idle"
    /\ \/ \E ns \in Words, name \in Words, v \in VersionStrings :
             /\ filename' = Format(ns, name, v)
             /\ formatted_from' = CollectionFilename(ns, name, v)
       \/ \E f \in OtherFilenames :
             /\ filename' = f
             /\ formatted_from' = Unbound
    /\ fn' = "parse_collection_filename"
    /\ pc' = "L105"
    /\ executed' = {}
    /\ UNCHANGED <<url, page, requirements_file_string, requirements, items, idx,
                   collection_info, match, ret>>

\* lines 105-108: the grammar
L105 ==
    /\ fn = "parse_collection_filename"
    /\ pc = "L105"
    /\ executed' = executed \cup {"L105"}
    /\ match' = FILENAME_RE_match(filename)
    /\ IF match' = NoMatch
       THEN /\ ret' = Raise("ValueError", "Invalid filename. Expected: {namespace}-{name}-{version}.tar.gz")
            /\ pc' = "done"
       ELSE /\ pc' = "L112"
            /\ UNCHANGED ret
    /\ UNCHANGED <<fn, url, page, requirements_file_string, requirements, items,
                   idx, collection_info, filename, formatted_from>>

\* lines 110-112: semver.Version.parse(version), its ValueError propagates
L112 ==
    /\ fn = "parse_collection_filename"
    /\ pc = "L112"
    /\ executed' = executed \cup {"L112"}
    /\ LET error == Version_parse(match.groups[3])
       IN  IF error # ""
           THEN /\ ret' = Raise("ValueError", error)
                /\ pc' = "done"
           ELSE /\ pc' = "L114"
                /\ UNCHANGED ret
    /\ UNCHANGED <<fn, url, page, requirements_file_string, requirements, items,
                   idx, collection_info, filename, formatted_from, match>>

\* line 114: return CollectionFilename(namespace, name, version)
L114 ==
    /\ fn = "parse_collection_filename"
    /\ pc = "L114"
    /\ executed' = executed \cup {"L114"}
    /\ ret' = Return(CollectionFilename(match.groups[1], match.groups[2], match.groups[3]))
    /\ pc' = "done"
    /\ UNCHANGED <<fn, url, page, requirements_file_string, requirements, items,
                   idx, collection_info, filename, formatted_from, match>>

Next ==
    \/ Call_get_page_url
    \/ Call_parse_collections_requirements_file
    \/ L59
    \/ L61
    \/ L72
    \/ L80
    \/ L81
    \/ L95
    \/ Call_parse_collection_filename
    \/ L105
    \/ L112
    \/ L114

Spec == Init /\ [][Next]_vars

(***************************************************************************)
(* Properties of get_page_url                                              *)
(***************************************************************************)
Returned(f) == fn = f /\ pc = "done" /\ ret.kind = "return"

IsPage(seg) == seg.name = "page"
IsOther(seg) == seg.name # "page"
\* a segment written name=value, the value possibly empty
IsWrittenPair(seg) == seg.eq /\ seg.name # "page"
\* a segment written name=value with a value
IsValuedPair(seg) == seg.eq /\ seg.value # "" /\ seg.name # "page"

NameValue(segs) == [i \in 1..Len(segs) |-> <<segs[i].name, segs[i].value>>]

\* C1: the query string of get_page_url(u, p) holds `page` exactly once, with
\* the value str(p), whatever `page` values u held; and when u has no query
\* string, `page` is the only parameter of the result.
C1_PageSetExactlyOnce ==
    (fn = "get_page_url" /\ pc = "done") =>
        /\ ret.kind = "return"
        /\ NameValue(SelectSeq(ret.value.query, IsPage)) = <<<<"page", str(page)>>>>
        /\ \A i \in 1..Len(ret.value.query) : ret.value.query[i].eq
        /\ (url.query = <<>> => NameValue(ret.value.query) = <<<<"page", str(page)>>>>)

\* u holds two `page` values, neither of them str(p), and get_page_url returned
C1_Witness ==
    /\ Returned("get_page_url")
    /\ Len(SelectSeq(url.query, IsPage)) >= 2
    /\ \A i \in 1..Len(url.query) :
          IsPage(url.query[i]) => url.query[i].eq /\ url.query[i].value \notin {"", str(page)}

\* C2 as stated: every name=value pair of u other than `page` appears in
\* get_page_url(u, p) unchanged and in its original position among the
\* non-page pairs, pairs with an empty value included.
C2_OtherPairsUntouched ==
    Returned("get_page_url") =>
        NameValue(SelectSeq(ret.value.query, IsOther))
            = NameValue(SelectSeq(url.query, IsWrittenPair))

RECURSIVE FirstOccurrences(_)
FirstOccurrences(names) ==
    IF names = <<>> THEN <<>>
    ELSE LET init == FirstOccurrences(SubSeq(names, 1, Len(names) - 1))
             last == names[Len(names)]
         IN  IF \E i \in 1..Len(init) : init[i] = last THEN init ELSE Append(init, last)

NamesOf(segs) == [i \in 1..Len(segs) |-> segs[i].name]
ValuesOf(segs, n) ==
    LET Named(seg) == seg.name = n
        sel == SelectSeq(segs, Named)
    IN  [i \in 1..Len(sel) |-> sel[i].value]

\* C2, amended: the non-page parameters of get_page_url(u, p) are those of u
\* that have a non-empty value; each keeps its non-empty values in their
\* original relative order; the parameters come in the order of their first
\* valued occurrence in u and the pairs of one parameter are contiguous.
\* Pairs with an empty value and segments without '=' are dropped.
C2_OtherParametersGrouped ==
    Returned("get_page_url") =>
        LET in == SelectSeq(url.query, IsValuedPair)
            out == SelectSeq(ret.value.query, IsOther)
        IN  /\ \A n \in QueryNames \ {"page"} : ValuesOf(out, n) = ValuesOf(in, n)
            /\ FirstOccurrences(NamesOf(out)) = FirstOccurrences(NamesOf(in))
            /\ \A i, k \in 1..Len(out) :
                  (i < k /\ out[i].name = out[k].name) =>
                      \A j \in i..k : out[j].name = out[i].name
            /\ Len(out) = Len(in)

\* u interleaves the values of a parameter with another parameter and also
\* carries a pair with an empty value
C2_Witness ==
    /\ Returned("get_page_url")
    /\ \E i, j, k \in 1..Len(url.query) :
          /\ i < j /\ j < k
          /\ IsValuedPair(url.query[i]) /\ IsValuedPair(url.query[j]) /\ IsValuedPair(url.query[k])
          /\ url.query[i].name = url.query[k].name
          /\ url.query[j].name # url.query[i].name
          /\ url.query[i].value # url.query[k].value
    /\ NameValue(SelectSeq(ret.value.query, IsOther))
           # NameValue(SelectSeq(url.query, IsWrittenPair))

(***************************************************************************)
(* Properties of parse_collections_requirements_file                       *)
(***************************************************************************)
InParse == fn = "parse_collections_requirements_file"
ParseDone == InParse /\ pc = "done"

\* The manifest, as the caller sees it
ManifestIsText == InParse /\ requirements_file_string.text = "nonempty"
ManifestParses == ManifestIsText /\ requirements_file_string.yaml # YAMLError
Document == requirements_file_string.yaml
IsMapping(v) == v.t = "dict"
\* the values a mapping holds under a key
Under(m, k) == {m.d[i][2] : i \in {h \in 1..Len(m.d) : m.d[h][1] = k}}
HasCollections == ManifestParses /\ IsMapping(Document) /\ Under(Document, collections_key) # {}
Collections == CHOOSE v \in Under(Document, collections_key) : TRUE
CollectionsIsSequence == HasCollections /\ Collections.t = "list"

\* the triple an element stands for
ExpectedTriple(e) ==
    IF IsMapping(e)
    THEN <<CHOOSE v \in Under(e, name_key) : TRUE,
           IF Under(e, version_key) = {} THEN PyStr(<<"*">>)
           ELSE CHOOSE v \in Under(e, version_key) : TRUE,
           IF Under(e, source_key) = {} THEN PyNone
           ELSE CHOOSE v \in Under(e, source_key) : TRUE>>
    ELSE <<e, PyStr(<<"*">>), PyNone>>

\* C3: when the call succeeds on a manifest whose `collections` is a sequence
\* of n elements, it returns n triples, the i-th derived from the i-th
\* element alone: (e, "*", None) for a bare element, (name, version or "*",
\* source or None) for a mapping; order is kept and duplicates are kept.
C3_OneTriplePerElementInOrder ==
    (ParseDone /\ ret.kind = "return" /\ CollectionsIsSequence) =>
        /\ Len(ret.value) = Len(Collections.l)
        /\ \A i \in 1..Len(Collections.l) : ret.value[i] = ExpectedTriple(Collections.l[i])

\* three elements of both shapes, the last two with the same name
C3_Witness ==
    /\ ParseDone /\ ret.kind = "return" /\ CollectionsIsSequence
    /\ Len(ret.value) = 3
    /\ ~IsMapping(Collections.l[1]) /\ IsMapping(Collections.l[2])
    /\ Under(Collections.l[2], version_key) = {}
    /\ IsMapping(Collections.l[3]) /\ Under(Collections.l[3], version_key) # {}
    /\ ret.value[2][1] = ret.value[3][1]
    /\ ret.value[1][1] # ret.value[2][1]

\* The manifest is text that is not YAML, or whose document is not a mapping
\* or is a mapping without `collections`.
BadShape ==
    /\ ManifestIsText
    /\ \/ ~ManifestParses
       \/ ~IsMapping(Document)
       \/ Under(Document, collections_key) = {}

\* C4: a non-empty manifest that is not parseable YAML, or whose document is
\* not a mapping, or is a mapping without `collections`, fails with
\* ValidationError and returns no list; the shape is checked only after the
\* YAML was parsed, and before any entry is examined.
C4_BadShapeRejected ==
    /\ BadShape =>
          /\ pc \in {"L59", "L61", "L72", "done"}
          /\ executed \cap {"L80", "L81", "L95"} = {}
          /\ collection_info = <<>>
          /\ (pc = "done" => ret.kind = "raise" /\ ret.exc = "ValidationError")
          /\ (~ManifestParses => "L72" \notin executed)
    /\ (InParse /\ "L72" \in executed) => (ManifestParses /\ requirements = Document)
    /\ (InParse /\ "L81" \in executed) => "L72" \in executed

\* a document that is a list holding a mapping without `name`: rejected for
\* its shape, the entry never looked at
C4_Witness ==
    /\ ParseDone /\ ManifestParses
    /\ Document.t = "list" /\ Len(Document.l) = 1
    /\ IsMapping(Document.l[1]) /\ Under(Document.l[1], name_key) = {}
    /\ ret.kind = "raise" /\ "L72" \in executed

\* a mapping element without a name: the key is absent, or holds null
\* (line 82 reads the key with None as its default, line 83 tests for None)
Nameless(e) == IsMapping(e) /\ Under(e, name_key) \subseteq {PyNone}
FirstNameless ==
    CHOOSE i \in 1..Len(Collections.l) :
        /\ Nameless(Collections.l[i])
        /\ \A h \in 1..(i - 1) : ~Nameless(Collections.l[h])
HasNameless ==
    CollectionsIsSequence /\ \E i \in 1..Len(Collections.l) : Nameless(Collections.l[i])

\* C5: the call fails fast on the first mapping entry without a name: it
\* raises ValidationError at that entry whatever precedes or follows it, and
\* the list accumulated so far is never returned.
C5_FailsFastOnNamelessEntry ==
    HasNameless =>
        /\ pc # "L95"
        /\ "L95" \notin executed
        /\ ret.kind # "return"
        /\ idx <= FirstNameless
        /\ pc = "done" =>
              /\ ret = ValidationError("Collections requirement entry should contain the key name.")
              /\ idx = FirstNameless
              /\ Len(collection_info) = FirstNameless - 1

\* the nameless entry stands between two valid ones
C5_Witness ==
    /\ ParseDone /\ HasNameless
    /\ Len(Collections.l) = 3
    /\ FirstNameless = 2
    /\ ~Nameless(Collections.l[3])
    /\ Under(Collections.l[2], name_key) = {}
    /\ ret.kind = "raise"

\* C6: every triple of a returned list is a RequirementEntry: its name is a
\* string, its version constraint is a string, its source is a string or
\* absent.
C6_TriplesAreRequirementEntries ==
    (ParseDone /\ ret.kind = "return") =>
        \A i \in 1..Len(ret.value) :
            /\ ret.value[i][1].t = "str"
            /\ ret.value[i][2].t = "str"
            /\ ret.value[i][3].t \in {"str", "None"}

\* C7: with an empty or absent manifest text the call returns the empty list,
\* without parsing YAML and without the top-level shape check.
C7_EmptyManifestReturnsEmptyList ==
    (InParse /\ requirements_file_string.text \in {"None", "empty"}) =>
        /\ pc \in {"L59", "L95", "done"}
        /\ executed \cap {"L61", "L72", "L80", "L81"} = {}
        /\ requirements = Unbound
        /\ pc = "done" => ret = Return(<<>>)

\* the empty text, answered with [] straight from line 59
C7_Witness ==
    /\ ParseDone
    /\ requirements_file_string.text = "empty"
    /\ ret = Return(<<>>)
    /\ "L59" \in executed

\* C10: the call returns a list or fails with ValidationError, nothing else;
\* a mapping whose `collections` is not a sequence is rejected with
\* ValidationError, or at least is not turned into entries.
C10_OnlyValidationErrorEscapes ==
    ParseDone =>
        /\ ret.kind = "return" \/ (ret.kind = "raise" /\ ret.exc = "ValidationError")
        /\ (HasCollections /\ ~CollectionsIsSequence) =>
              \/ ret.kind = "raise" /\ ret.exc = "ValidationError"
              \/ ret = Return(<<>>)

(***************************************************************************)
(* Properties of parse_collection_filename                                 *)
(***************************************************************************)
InFilename == fn = "parse_collection_filename"
FilenameDone == InFilename /\ pc = "done"

IsWord(s) == s # <<>> /\ \A i \in 1..Len(s) : s[i] \in WordChars

\* Semantic Versioning 2.0.0: <core>[-<pre-release>][+<build>], the core three
\* numeric identifiers, pre-release and build dot-separated identifiers of
\* [0-9A-Za-z-], numeric identifiers of core and pre-release without leading
\* zeros.
FirstIndex(s, c) ==
    IF \E i \in 1..Len(s) : s[i] = c
    THEN CHOOSE i \in 1..Len(s) : s[i] = c /\ \A h \in 1..(i - 1) : s[h] # c
    ELSE Len(s) + 1
IsNumeric(s) == s # <<>> /\ (\A i \in 1..Len(s) : s[i] \in Digits) /\ (Len(s) > 1 => s[1] # "0")
IsIdentifier(s) == s # <<>> /\ \A i \in 1..Len(s) : s[i] \in Digits \cup Letters \cup {"-"}
IsPreReleaseIdentifier(s) ==
    IsIdentifier(s) /\ ((\A i \in 1..Len(s) : s[i] \in Digits) => IsNumeric(s))
\* the dot-separated pieces of s
Pieces(s) ==
    LET cuts == {0, Len(s) + 1} \cup {i \in 1..Len(s) : s[i] = "."}
    IN  {SubSeq(s, a + 1, b - 1) :
            <<a, b>> \in {c \in cuts \X cuts :
                             c[1] < c[2] /\ \A m \in cuts : ~(c[1] < m /\ m < c[2])}}
IsSemanticVersion(v) ==
    LET plus == FirstIndex(v, "+")
        main == SubSeq(v, 1, plus - 1)
        hyphen == FirstIndex(main, "-")
        core == SubSeq(main, 1, hyphen - 1)
    IN  /\ Cardinality({i \in 1..Len(core) : core[i] = "."}) = 2
        /\ \A piece \in Pieces(core) : IsNumeric(piece)
        /\ hyphen <= Len(main) =>
              \A piece \in Pieces(SubSeq(main, hyphen + 1, Len(main))) :
                  IsPreReleaseIdentifier(piece)
        /\ plus <= Len(v) =>
              \A piece \in Pieces(SubSeq(v, plus + 1, Len(v))) : IsIdentifier(piece)

\* The grammar {namespace}-{name}-{version}.tar.gz: the splits of a filename
\* into a namespace and a name of word characters and a version of digits,
\* letters, '.', '+', '-', followed by ".tar.gz" and nothing else.
GrammarSplits(f) ==
    {<<i, j>> \in (1..Len(f)) \X (1..Len(f)) :
        /\ i < j
        /\ f[i] = "-" /\ f[j] = "-"
        /\ IsWord(SubSeq(f, 1, i - 1))
        /\ IsWord(SubSeq(f, i + 1, j - 1))
        /\ Len(f) - Len(TarGz) > j
        /\ \A h \in (j + 1)..(Len(f) - Len(TarGz)) : f[h] \in VersionChars
        /\ SubSeq(f, Len(f) - Len(TarGz) + 1, Len(f)) = TarGz}
MatchesGrammar(f) == GrammarSplits(f) # {}
GrammarVersion(f) ==
    LET g == CHOOSE g \in GrammarSplits(f) : TRUE
    IN  SubSeq(f, g[2] + 1, Len(f) - Len(TarGz))

ExpectedPatternError ==
    Raise("ValueError", "Invalid filename. Expected: {namespace}-{name}-{version}.tar.gz")

\* C8: a filename that does not match the grammar fails with the
\* expected-pattern error before any version check; one that matches but
\* whose version is not a semantic version fails with the invalid-version
\* error; otherwise the result is CollectionFilename(namespace, name,
\* version), namespace and name of word characters, version a semantic
\* version.
C8_TwoStepValidation ==
    /\ (FilenameDone /\ ~MatchesGrammar(filename)) =>
          /\ "L112" \notin executed
          /\ ret = ExpectedPatternError
    /\ (FilenameDone /\ MatchesGrammar(filename)) =>
          IF IsSemanticVersion(GrammarVersion(filename))
          THEN ret.kind = "return"
          ELSE ret.kind = "raise" /\ ret.exc = "ValueError" /\ ret # ExpectedPatternError
    /\ (FilenameDone /\ ret.kind = "return") =>
          /\ IsWord(ret.value.namespace)
          /\ IsWord(ret.value.name)
          /\ IsSemanticVersion(ret.value.version)
          /\ {"L105", "L112"} \subseteq executed

Hyphens(s) == Cardinality({i \in 1..Len(s) : s[i] = "-"})

\* C9: for namespace and name of word characters and a semantic version,
\* formatting f"{ns}-{name}-{version}.tar.gz" and parsing it gives back
\* exactly (ns, name, version), hyphens in the version or not.
C9_RoundTrip ==
    (FilenameDone /\ formatted_from # Unbound /\ IsWord(formatted_from.namespace)
        /\ IsWord(formatted_from.name) /\ IsSemanticVersion(formatted_from.version))
        => ret = Return(formatted_from)

\* the version carries hyphens in its pre-release and in its build part
C9_Witness ==
    /\ FilenameDone /\ formatted_from # Unbound
    /\ IsSemanticVersion(formatted_from.version)
    /\ ret = Return(formatted_from)
    /\ LET v == formatted_from.version
           plus == FirstIndex(v, "+")
       IN  /\ plus <= Len(v)
           /\ Hyphens(SubSeq(v, 1, plus - 1)) >= 2
           /\ Hyphens(SubSeq(v, plus + 1, Len(v))) >= 1

====
